---- MODULE Spec2Model ----
(***************************************************************************)
(* PyWeatherMCP (src/weather.py): the weather tools of an MCP server and   *)
(* the JSON file weather_memory.json they share.                           *)
(*                                                                         *)
(* Python values are tagged tuples:                                        *)
(*   <<"None">>  <<"str", s>>  <<"iso", minute, tick>>  <<"float", n>>     *)
(*   <<"int", n>>  <<"list", elements>>  <<"dict", pairs>>                 *)
(* a dict being the sequence of its <<key, value>> pairs in insertion      *)
(* order, and <<"iso", m, t>> the str datetime.isoformat() returns.        *)
(* The text of the file is the sequence of its JSON tokens.                *)
(***************************************************************************)
EXTENDS Integers, Sequences, FiniteSets, TLC

(***************************************************************************)
(* Bounds of the model.                                                    *)
(***************************************************************************)
\* invocations started in one run
MaxCalls == 2
\* forecast periods the upstream feed returns at most
MaxPeriods == 6
\* clock ticks in one minute (the part of a timestamp strftime drops)
TicksPerMinute == 2

(***************************************************************************)
(* Python values.                                                          *)
(***************************************************************************)
PyNone == <<"None">>
PyStr(s) == <<"str", s>>
PyFloat(n) == <<"float", n>>
PyInt(n) == <<"int", n>>
PyList(els) == <<"list", els>>
PyDict(pairs) == <<"dict", pairs>>

\* bool(v): None, the empty dict, list and str and the number 0 are false
Truthy(v) ==
    CASE v[1] = "None" -> FALSE
      [] v[1] = "dict" -> v[2] # <<>>
      [] v[1] = "list" -> v[2] # <<>>
      [] v[1] = "str" -> v[2] # ""
      [] v[1] = "float" -> v[2] # 0
      [] v[1] = "int" -> v[2] # 0
      [] OTHER -> TRUE

\* key in d
HasKey(d, k) == \E n \in 1..Len(d[2]) : d[2][n][1] = k

\* d[k], for a key the dict holds
Item(d, k) == d[2][CHOOSE n \in 1..Len(d[2]) : d[2][n][1] = k][2]

\* d.get(k): the default forgotten, a missing key gives None
DictGet_NoDefault(d, k, default) == IF HasKey(d, k) THEN Item(d, k) ELSE PyNone

\* d.get(k, default)
DictGet(d, k, default) == IF HasKey(d, k) THEN Item(d, k) ELSE default

\* d[k] = v: a new key goes to the end, a known key keeps its place
DictSet(d, k, v) ==
    IF HasKey(d, k)
    THEN PyDict([n \in 1..Len(d[2]) |->
                    IF d[2][n][1] = k THEN <<k, v>> ELSE d[2][n]])
    ELSE PyDict(Append(d[2], <<k, v>>))

\* l.append(v)
ListAppend(l, v) == PyList(Append(l[2], v))

\* datetime.now().isoformat(): the clock reading as an ISO-8601 str
isoformat(t) == <<"iso", t \div TicksPerMinute, t % TicksPerMinute>>

\* datetime.fromisoformat(s): the clock reading the str denotes
fromisoformat(s) == s[2] * TicksPerMinute + s[3]

\* dt.strftime("%Y-%m-%d %H:%M"): the minute, the ticks within it dropped
strftime(t) == "T" \o ToString(t \div TicksPerMinute)

\* str(v) as an f-string formats it
Str(v) ==
    CASE v[1] = "None" -> "None"
      [] v[1] = "str" -> v[2]
      [] v[1] = "iso" -> "T" \o ToString(v[2]) \o ":" \o ToString(v[3])
      [] v[1] = "float" -> ToString(v[2]) \o ".0"
      [] v[1] = "int" -> ToString(v[2])
      [] OTHER -> "?"

(***************************************************************************)
(* json.dump and json.load, on token sequences.  Tokens:                   *)
(*   <<"{">> <<"}">> <<"[">> <<"]">> <<",">> <<":">> <<"null">>            *)
(*   <<"string", s>>  <<"isostring", m, t>>  <<"num", n, isFloat>>         *)
(***************************************************************************)
RECURSIVE JoinTokens(_, _)
JoinTokens(parts, sep) ==
    IF parts = <<>> THEN <<>>
    ELSE IF Len(parts) = 1 THEN parts[1]
    ELSE parts[1] \o sep \o JoinTokens(Tail(parts), sep)

RECURSIVE json_dump_IntFloats(_)
\* a json.dump that writes 40.0 as 40
json_dump_IntFloats(v) ==
    CASE v[1] = "None" -> << <<"null">> >>
      [] v[1] = "str" -> << <<"string", v[2]>> >>
      [] v[1] = "iso" -> << <<"isostring", v[2], v[3]>> >>
      [] v[1] = "float" -> << <<"num", v[2], FALSE>> >>
      [] v[1] = "int" -> << <<"num", v[2], FALSE>> >>
      [] v[1] = "list" ->
            << <<"[">> >>
            \o JoinTokens([n \in 1..Len(v[2]) |-> json_dump_IntFloats(v[2][n])],
                          << <<",">> >>)
            \o << <<"]">> >>
      [] v[1] = "dict" ->
            << <<"{">> >>
            \o JoinTokens([n \in 1..Len(v[2]) |->
                              << <<"string", v[2][n][1]>>, <<":">> >>
                              \o json_dump_IntFloats(v[2][n][2])],
                          << <<",">> >>)
            \o << <<"}">> >>

RECURSIVE json_dump(_)
json_dump(v) ==
    CASE v[1] = "None" -> << <<"null">> >>
      [] v[1] = "str" -> << <<"string", v[2]>> >>
      [] v[1] = "iso" -> << <<"isostring", v[2], v[3]>> >>
      [] v[1] = "float" -> << <<"num", v[2], TRUE>> >>
      [] v[1] = "int" -> << <<"num", v[2], FALSE>> >>
      [] v[1] = "list" ->
            << <<"[">> >>
            \o JoinTokens([n \in 1..Len(v[2]) |-> json_dump(v[2][n])], << <<",">> >>)
            \o << <<"]">> >>
      [] v[1] = "dict" ->
            << <<"{">> >>
            \o JoinTokens([n \in 1..Len(v[2]) |->
                              << <<"string", v[2][n][1]>>, <<":">> >>
                              \o json_dump(v[2][n][2])],
                          << <<",">> >>)
            \o << <<"}">> >>

ParseFail == [ok |-> FALSE, val |-> PyNone, next |-> 0]
ParseOk(v, p) == [ok |-> TRUE, val |-> v, next |-> p]
TokIs(t, p, k) == p <= Len(t) /\ t[p][1] = k

RECURSIVE ParseValue(_, _), ParseElements(_, _, _), ParseMembers(_, _, _)
\* the JSON value starting at token p
ParseValue(t, p) ==
    IF p > Len(t) THEN ParseFail
    ELSE CASE t[p][1] = "null" -> ParseOk(PyNone, p + 1)
           [] t[p][1] = "string" -> ParseOk(PyStr(t[p][2]), p + 1)
           [] t[p][1] = "isostring" -> ParseOk(<<"iso", t[p][2], t[p][3]>>, p + 1)
           [] t[p][1] = "num" ->
                ParseOk(IF t[p][3] THEN PyFloat(t[p][2]) ELSE PyInt(t[p][2]), p + 1)
           [] t[p][1] = "[" -> ParseElements(t, p + 1, <<>>)
           [] t[p][1] = "{" -> ParseMembers(t, p + 1, PyDict(<<>>))
           [] OTHER -> ParseFail

\* the rest of an array whose elements so far are acc
ParseElements(t, p, acc) ==
    IF acc = <<>> /\ TokIs(t, p, "]") THEN ParseOk(PyList(<<>>), p + 1)
    ELSE LET r == ParseValue(t, p) IN
         IF ~r.ok THEN ParseFail
         ELSE IF TokIs(t, r.next, ",")
              THEN ParseElements(t, r.next + 1, Append(acc, r.val))
         ELSE IF TokIs(t, r.next, "]")
              THEN ParseOk(PyList(Append(acc, r.val)), r.next + 1)
         ELSE ParseFail

\* the rest of an object whose members so far are acc
ParseMembers(t, p, acc) ==
    IF acc[2] = <<>> /\ TokIs(t, p, "}") THEN ParseOk(acc, p + 1)
    ELSE IF ~(TokIs(t, p, "string") /\ TokIs(t, p + 1, ":")) THEN ParseFail
    ELSE LET r == ParseValue(t, p + 2) IN
         IF ~r.ok THEN ParseFail
         ELSE IF TokIs(t, r.next, ",")
              THEN ParseMembers(t, r.next + 1, DictSet(acc, t[p][2], r.val))
         ELSE IF TokIs(t, r.next, "}")
              THEN ParseOk(DictSet(acc, t[p][2], r.val), r.next + 1)
         ELSE ParseFail

\* json.load: the value, or JSONDecodeError when the text is no JSON document
json_load(t) ==
    LET r == ParseValue(t, 1) IN
    IF r.ok /\ r.next = Len(t) + 1
    THEN [raised |-> FALSE, val |-> r.val]
    ELSE [raised |-> TRUE, val |-> PyStr("JSONDecodeError")]

(***************************************************************************)
(* Constants of weather.py and the texts it returns.                       *)
(***************************************************************************)
NWS_API_BASE == "https://api.weather.gov"
\* U+2022 and U+00B0 of the source, in ASCII
BULLET == "* "
DEGREE == "deg"
\* get_history's default limit
DefaultLimit == 10
\* periods get_forecast renders
ForecastPeriods == 5

RECURSIVE JoinStr(_, _)
\* sep.join(parts)
JoinStr(parts, sep) ==
    IF parts = <<>> THEN ""
    ELSE IF Len(parts) = 1 THEN parts[1]
    ELSE parts[1] \o sep \o JoinStr(Tail(parts), sep)

\* reversed(seq)
Reversed(seq) == [n \in 1..Len(seq) |-> seq[Len(seq) + 1 - n]]

\* seq[start:] of Python, start any integer
SliceFrom(seq, start) ==
    LET from == IF start < 0
                THEN (IF Len(seq) + start < 0 THEN 0 ELSE Len(seq) + start)
                ELSE (IF start > Len(seq) THEN Len(seq) ELSE start)
    IN  SubSeq(seq, from + 1, Len(seq))

\* seq[:stop] of Python, stop >= 0
SliceTo(seq, stop) == SubSeq(seq, 1, IF stop > Len(seq) THEN Len(seq) ELSE stop)

(***************************************************************************)
(* The memory store: the file weather_memory.json.                         *)
(***************************************************************************)
EmptyDoc == PyDict(<< <<"searches", PyList(<<>>)>>, <<"favorites", PyList(<<>>)>> >>)

AbsentFile == [exists |-> FALSE, text |-> <<>>]

\* a load_memory that takes an unreadable file for an empty store
load_memory_Swallow(f) ==
    IF f.exists /\ ~json_load(f.text).raised
    THEN json_load(f.text)
    ELSE [raised |-> FALSE, val |-> EmptyDoc]

\* load_memory(): the parsed file, the default document when there is no file
load_memory(f) ==
    IF f.exists THEN json_load(f.text) ELSE [raised |-> FALSE, val |-> EmptyDoc]

\* a save_memory that writes 40.0 as 40
save_memory_IntFloats(data) == [exists |-> TRUE, text |-> json_dump_IntFloats(data)]

\* save_memory(data): the file rewritten whole
save_memory(data) == [exists |-> TRUE, text |-> json_dump(data)]

\* the file an earlier run of the server left for this document
WrittenFile(doc) == [exists |-> TRUE, text |-> json_dump(doc)]

Searches(doc) == Item(doc, "searches")[2]
Favorites(doc) == Item(doc, "favorites")[2]

(***************************************************************************)
(* The HTTP fetcher.  An outcome of the GET is an exception (network       *)
(* error, timeout, non-2xx status, a body that is no JSON) or a JSON body. *)
(***************************************************************************)
HttpError == [failed |-> TRUE, body |-> PyNone]
HttpJson(body) == [failed |-> FALSE, body |-> body]

\* make_nws_request: the body, None on any exception
make_nws_request(outcome) == IF outcome.failed THEN PyNone ELSE outcome.body

(***************************************************************************)
(* get_alerts                                                              *)
(***************************************************************************)
AlertRecord(state, now) ==
    PyDict(<< <<"type", PyStr("alerts")>>,
              <<"state", PyStr(state)>>,
              <<"timestamp", isoformat(now)>> >>)

\* memory['searches'].insert(0, rec)
AppendSearch_Front(memory, rec) ==
    DictSet(memory, "searches", PyList(<<rec>> \o Item(memory, "searches")[2]))

\* memory['searches'].append(rec)
AppendSearch(memory, rec) ==
    DictSet(memory, "searches", ListAppend(Item(memory, "searches"), rec))

AlertsUrl(state) == NWS_API_BASE \o "/alerts/active/area/" \o state

\* the block of one alert feature
AlertBlock(feature) ==
    LET props == Item(feature, "properties") IN
    "\nEvent: " \o Str(DictGet(props, "event", PyStr("Unknown")))
    \o "\nArea: " \o Str(DictGet(props, "areaDesc", PyStr("Unknown")))
    \o "\nSeverity: " \o Str(DictGet(props, "severity", PyStr("Unknown")))
    \o "\nDescription: " \o Str(DictGet(props, "description", PyStr("No description")))
    \o "\n"

AlertsSeparator == "\n---\n"

\* what get_alerts returns for the fetched data
AlertsText(state, data) ==
    IF ~Truthy(data) \/ ~HasKey(data, "features")
    THEN "Unable to fetch alerts"
    ELSE IF ~Truthy(Item(data, "features"))
    THEN "No active alerts for " \o state
    ELSE LET features == Item(data, "features")[2] IN
         "[Weather MCP Server] Alerts for " \o state \o "\n"
         \o JoinStr([n \in 1..Len(features) |-> AlertBlock(features[n])],
                    AlertsSeparator)

(***************************************************************************)
(* get_forecast                                                            *)
(***************************************************************************)
ForecastRecord(latitude, longitude, location_name, now) ==
    PyDict(<< <<"type", PyStr("forecast")>>,
              <<"location", PyStr(location_name)>>,
              <<"latitude", PyFloat(latitude)>>,
              <<"longitude", PyFloat(longitude)>>,
              <<"timestamp", isoformat(now)>> >>)

PointsUrl(latitude, longitude) ==
    NWS_API_BASE \o "/points/" \o Str(PyFloat(latitude)) \o "," \o Str(PyFloat(longitude))

\* the block of one forecast period
PeriodBlock(period) ==
    "\n" \o Str(Item(period, "name")) \o ":"
    \o "\nTemperature: " \o Str(Item(period, "temperature")) \o DEGREE
    \o Str(Item(period, "temperatureUnit"))
    \o "\nWind: " \o Str(Item(period, "windSpeed")) \o " "
    \o Str(Item(period, "windDirection"))
    \o "\nForecast: " \o Str(Item(period, "detailedForecast"))
    \o "\n"

\* what get_forecast returns for a forecast payload that was fetched
ForecastText(location_name, forecast_data) ==
    LET periods == SliceTo(Item(Item(forecast_data, "properties"), "periods")[2],
                           ForecastPeriods)
    IN  "[Weather MCP Server] Forecast for " \o location_name \o "\n"
        \o JoinStr([n \in 1..Len(periods) |-> PeriodBlock(periods[n])], "\n")

(***************************************************************************)
(* save_favorite, get_favorites                                            *)
(***************************************************************************)
FavoriteRecord(name, latitude, longitude, now) ==
    PyDict(<< <<"name", PyStr(name)>>,
              <<"latitude", PyFloat(latitude)>>,
              <<"longitude", PyFloat(longitude)>>,
              <<"added", isoformat(now)>> >>)

\* the scan left out
FavoriteExists_Never(memory, name) == FALSE

\* the scan of save_favorite: some favorite has this name
FavoriteExists(memory, name) ==
    \E n \in 1..Len(Favorites(memory)) :
        Item(Favorites(memory)[n], "name") = PyStr(name)

\* memory['favorites'] = [rec]
AppendFavorite_Replace(memory, rec) ==
    DictSet(memory, "favorites", PyList(<<rec>>))

\* memory['favorites'].append(rec)
AppendFavorite(memory, rec) ==
    DictSet(memory, "favorites", ListAppend(Item(memory, "favorites"), rec))

AlreadySavedText(name) == "Location '" \o name \o "' already saved as favorite"
SavedText(name) == "[Weather MCP Server] Saved '" \o name \o "' to favorites"

NoFavoritesText == "[Weather MCP Server] No favorite locations saved yet"

FavoriteLine(fav) ==
    BULLET \o Str(Item(fav, "name")) \o " (" \o Str(Item(fav, "latitude"))
    \o ", " \o Str(Item(fav, "longitude")) \o ")"

\* what get_favorites returns
FavoritesText(memory) ==
    IF ~Truthy(Item(memory, "favorites")) THEN NoFavoritesText
    ELSE JoinStr(<<"[Weather MCP Server] Your Favorite Locations:\n">>
                 \o [n \in 1..Len(Favorites(memory)) |->
                        FavoriteLine(Favorites(memory)[n])],
                 "\n")

(***************************************************************************)
(* get_history, clear_history, the stats resource                          *)
(***************************************************************************)
NoHistoryText == "[Weather MCP Server] No search history yet"

\* memory['searches'][-limit:]
RecentSearches(memory, limit) == SliceFrom(Searches(memory), 0 - limit)

HistoryLine(search) ==
    LET timestamp == strftime(fromisoformat(Item(search, "timestamp"))) IN
    IF Item(search, "type") = PyStr("alerts")
    THEN BULLET \o timestamp \o ": Alerts for " \o Str(Item(search, "state"))
    ELSE BULLET \o timestamp \o ": Forecast for "
         \o Str(DictGet(search, "location", PyStr("Unknown")))

\* the lines get_history renders, in the order it renders them
HistoryLines(memory, limit) ==
    LET recent == Reversed(RecentSearches(memory, limit)) IN
    [n \in 1..Len(recent) |-> HistoryLine(recent[n])]

\* what get_history returns
HistoryText(memory, limit) ==
    IF ~Truthy(Item(memory, "searches")) THEN NoHistoryText
    ELSE JoinStr(<<"[Weather MCP Server] Recent Searches:\n">>
                 \o HistoryLines(memory, limit), "\n")

\* the whole document reset
ClearSearches_All(memory) == EmptyDoc

\* memory['searches'] = []
ClearSearches(memory) == DictSet(memory, "searches", PyList(<<>>))

HistoryClearedText == "[Weather MCP Server] Search history cleared"

\* what the weather://stats resource returns
StatsText(memory) ==
    "\nUsage Statistics\n================\nTotal searches: "
    \o ToString(Len(Searches(memory)))
    \o "\nFavorite locations: " \o ToString(Len(Favorites(memory))) \o "\n"

(***************************************************************************)
(* Inputs: the arguments the host passes and the outcomes of the GETs.     *)
(***************************************************************************)
States == {"CA", "NY"}
\* <<latitude, longitude, location_name>> of get_forecast
ForecastArgs == { <<40, 0 - 75, "Home">>, <<34, 0 - 118, "Unknown">> }
\* <<name, latitude, longitude>> of save_favorite
FavoriteArgs == { <<"Home", 40, 0 - 75>>, <<"Home", 34, 0 - 118>>, <<"Work", 34, 0 - 118>> }
Limits == {0 - 1, 0, 1, DefaultLimit}

Feature(props) == PyDict(<< <<"properties", props>> >>)
FullProps ==
    PyDict(<< <<"event", PyStr("Flood Warning")>>,
              <<"areaDesc", PyStr("Coast")>>,
              <<"severity", PyStr("Severe")>>,
              <<"description", PyStr("Heavy rain")>> >>)
\* an alert whose event is null and whose severity and description are missing
PartProps == PyDict(<< <<"event", PyNone>>, <<"areaDesc", PyStr("Valley")>> >>)
NoProps == PyDict(<<>>)
FeatureCollection(features) == PyDict(<< <<"features", PyList(features)>> >>)

\* outcomes of GET {base}/alerts/active/area/{state}
AlertsOutcomes ==
    << HttpError,
       HttpJson(PyDict(<<>>)),
       HttpJson(PyDict(<< <<"title", PyStr("Not Found")>> >>)),
       HttpJson(FeatureCollection(<<>>)),
       HttpJson(FeatureCollection(<< Feature(FullProps) >>)),
       HttpJson(FeatureCollection(<< Feature(NoProps), Feature(PartProps) >>)) >>

ForecastUrl == NWS_API_BASE \o "/gridpoints/PHI/49,75/forecast"

\* outcomes of GET {base}/points/{lat},{lon}
PointsOutcomes ==
    << HttpError,
       HttpJson(PyDict(<<>>)),
       HttpJson(PyDict(<< <<"properties",
                            PyDict(<< <<"forecast", PyStr(ForecastUrl)>> >>)>> >>)) >>

Period(k) ==
    PyDict(<< <<"name", PyStr("Period " \o ToString(k))>>,
              <<"temperature", PyInt(60 + k)>>,
              <<"temperatureUnit", PyStr("F")>>,
              <<"windSpeed", PyStr("5 mph")>>,
              <<"windDirection", PyStr("NW")>>,
              <<"detailedForecast", PyStr("Sunny")>> >>)

ForecastPayload(n) ==
    PyDict(<< <<"properties",
                PyDict(<< <<"periods", PyList([k \in 1..n |-> Period(k)])>> >>)>> >>)

\* outcomes of GET on the forecast feed
FeedOutcomes ==
    << HttpError,
       HttpJson(PyDict(<<>>)),
       HttpJson(ForecastPayload(1)),
       HttpJson(ForecastPayload(MaxPeriods)) >>

(***************************************************************************)
(* State.                                                                  *)
(***************************************************************************)
Procs == {1, 2}
Servers == {"A", "B"}

VARIABLES
    file,     \* weather_memory.json: [exists, text]
    clock,    \* the next reading of datetime.now()
    calls,    \* invocations started so far
    srv,      \* the server process each invocation runs in
    frame,    \* each invocation: where it is and its local variables
    ret,      \* the reply the host received last
    jr,       \* history: the last two store accesses that ended
    durable   \* history: the records saved, searches since the last clear

vars == <<file, clock, calls, srv, frame, ret, jr, durable>>

IdleFrame ==
    [pc |-> "idle", op |-> "none", args |-> <<>>, cid |-> 0, absent |-> FALSE,
     loaded |-> PyNone, memory |-> PyNone, reqs |-> <<>>, resps |-> <<>>]

NoRet ==
    [cid |-> 0, who |-> 0, op |-> "none", args |-> <<>>, raised |-> FALSE,
     value |-> "", reqs |-> <<>>, resps |-> <<>>]

\* the file a crash in the middle of save_memory leaves behind
TruncatedFile == [exists |-> TRUE, text |-> SubSeq(WrittenFile(EmptyDoc).text, 1, 4)]

\* the store after get_alerts("CA"), get_forecast(40.0, -75.0, "Home") and
\* save_favorite("Home", 40.0, -75.0) ran one after the other on an empty store
SeededSearches ==
    << AlertRecord("CA", 0), ForecastRecord(40, 0 - 75, "Home", 1) >>
SeededFavorites == << FavoriteRecord("Home", 40, 0 - 75, 2) >>
SeededDoc ==
    AppendFavorite(AppendSearch(AppendSearch(EmptyDoc, SeededSearches[1]),
                                SeededSearches[2]),
                   SeededFavorites[1])

NothingSaved == [searches |-> <<>>, favorites |-> <<>>]

\* the stores a run starts from: no file, a truncated file,
\* a store with two searches and a favorite
InitStores ==
    << [file |-> AbsentFile, clock |-> 0, durable |-> NothingSaved],
       [file |-> TruncatedFile, clock |-> 0, durable |-> NothingSaved],
       [file |-> WrittenFile(SeededDoc), clock |-> 3,
        durable |-> [searches |-> SeededSearches, favorites |-> SeededFavorites]] >>

InitCommon ==
    /\ \E n \in 1..Len(InitStores) :
          /\ file = InitStores[n].file
          /\ clock = InitStores[n].clock
          /\ durable = InitStores[n].durable
    /\ calls = 0
    /\ frame = [i \in Procs |-> IdleFrame]
    /\ ret = NoRet
    /\ jr = <<>>

\* one server process, started by mcp.run(transport='stdio')
Init == InitCommon /\ srv = [i \in Procs |-> "A"]

\* one server process, or two of them started in the same directory
InitMP == InitCommon /\ srv \in {f \in [Procs -> Servers] : f[1] = "A"}

(***************************************************************************)
(* Scheduling.  Within a server process the handlers run on one event      *)
(* loop: a handler gives up the loop only at an await.                     *)
(***************************************************************************)
\* handlers that give up the loop between any two statements
LoopFree_Yielding(i) == TRUE

LoopFree(i) ==
    \A j \in Procs \ {i} :
        srv[j] = srv[i] => frame[j].pc \in {"idle", "await"}

\* the host starts an invocation in the first idle slot
CanStart(i) ==
    /\ frame[i].pc = "idle"
    /\ \A j \in Procs : j < i => frame[j].pc # "idle"
    /\ calls < MaxCalls
    /\ LoopFree(i)

At(i, op, pc) == frame[i].op = op /\ frame[i].pc = pc /\ LoopFree(i)

Logged(e) == IF Len(jr) < 2 THEN Append(jr, e) ELSE << jr[2], e >>

Access(i, c, op, args, absent, raised, loaded, wrote) ==
    [cid |-> c, who |-> i, op |-> op, args |-> args, absent |-> absent,
     raised |-> raised, loaded |-> loaded, wrote |-> wrote]

Reply(i, c, op, args, raised, value, reqs, resps) ==
    [cid |-> c, who |-> i, op |-> op, args |-> args, raised |-> raised,
     value |-> value, reqs |-> reqs, resps |-> resps]

Loaded(i, op, args, m, memory) ==
    [pc |-> "save", op |-> op, args |-> args, cid |-> calls + 1,
     absent |-> ~file.exists, loaded |-> m.val, memory |-> memory,
     reqs |-> <<>>, resps |-> <<>>]

\* load_memory raised: the error leaves the handler, nothing else happened
LoadRaises(i, op, args, m) ==
    /\ ret' = Reply(i, calls + 1, op, args, TRUE, m.val[2], <<>>, <<>>)
    /\ jr' = Logged(Access(i, calls + 1, op, args, ~file.exists, TRUE, PyNone, PyNone))
    /\ UNCHANGED <<file, clock, frame, durable>>

\* a handler that only reads the store returns text
ReadReturns(i, op, args, m, text) ==
    /\ ret' = Reply(i, calls + 1, op, args, FALSE, text, <<>>, <<>>)
    /\ jr' = Logged(Access(i, calls + 1, op, args, ~file.exists, FALSE, m.val, PyNone))
    /\ UNCHANGED <<file, clock, frame, durable>>

\* save_memory(memory) of invocation i
Saves(i) ==
    /\ file' = save_memory(frame[i].memory)
    /\ jr' = Logged(Access(i, frame[i].cid, frame[i].op, frame[i].args,
                           frame[i].absent, FALSE, frame[i].loaded, frame[i].memory))

LastOf(seq) == seq[Len(seq)]

(***************************************************************************)
(* get_alerts(state)                                                       *)
(***************************************************************************)
\* lines 94-99: load the store and append the search to the local copy
get_alerts_load(i, state) ==
    /\ CanStart(i)
    /\ LET m == load_memory(file) IN
       IF m.raised THEN LoadRaises(i, "get_alerts", <<state>>, m)
       ELSE /\ frame' = [frame EXCEPT ![i] =
                    Loaded(i, "get_alerts", <<state>>, m,
                           AppendSearch(m.val, AlertRecord(state, clock)))]
            /\ clock' = clock + 1
            /\ ret' = NoRet
            /\ UNCHANGED <<file, jr, durable>>
    /\ calls' = calls + 1
    /\ UNCHANGED srv

\* line 100: save the store
get_alerts_save(i) ==
    /\ At(i, "get_alerts", "save")
    /\ Saves(i)
    /\ durable' = [durable EXCEPT !.searches =
                      Append(@, LastOf(Searches(frame[i].memory)))]
    /\ frame' = [frame EXCEPT ![i].pc = "request"]
    /\ UNCHANGED <<clock, calls, srv, ret>>

\* lines 102-103: issue the GET and wait for it
get_alerts_request(i) ==
    /\ At(i, "get_alerts", "request")
    /\ frame' = [frame EXCEPT ![i].pc = "await",
                              ![i].reqs = Append(@, AlertsUrl(frame[i].args[1]))]
    /\ UNCHANGED <<file, clock, calls, srv, ret, jr, durable>>

\* lines 103-122: the GET ended, format the reply
get_alerts_response(i, outcome) ==
    /\ At(i, "get_alerts", "await")
    /\ LET data == make_nws_request(outcome) IN
       ret' = Reply(i, frame[i].cid, "get_alerts", frame[i].args, FALSE,
                    AlertsText(frame[i].args[1], data),
                    frame[i].reqs, Append(frame[i].resps, data))
    /\ frame' = [frame EXCEPT ![i] = IdleFrame]
    /\ UNCHANGED <<file, clock, calls, srv, jr, durable>>

(***************************************************************************)
(* get_forecast(latitude, longitude, location_name)                        *)
(***************************************************************************)
\* lines 137-144
get_forecast_load(i, latitude, longitude, location_name) ==
    /\ CanStart(i)
    /\ LET m == load_memory(file)
           args == <<latitude, longitude, location_name>>
       IN
       IF m.raised THEN LoadRaises(i, "get_forecast", args, m)
       ELSE /\ frame' = [frame EXCEPT ![i] =
                    Loaded(i, "get_forecast", args, m,
                           AppendSearch(m.val,
                               ForecastRecord(latitude, longitude, location_name, clock)))]
            /\ clock' = clock + 1
            /\ ret' = NoRet
            /\ UNCHANGED <<file, jr, durable>>
    /\ calls' = calls + 1
    /\ UNCHANGED srv

\* line 145
get_forecast_save(i) ==
    /\ At(i, "get_forecast", "save")
    /\ Saves(i)
    /\ durable' = [durable EXCEPT !.searches =
                      Append(@, LastOf(Searches(frame[i].memory)))]
    /\ frame' = [frame EXCEPT ![i].pc = "request"]
    /\ UNCHANGED <<clock, calls, srv, ret>>

\* lines 147-148: the GET of the grid point
get_forecast_request(i) ==
    /\ At(i, "get_forecast", "request")
    /\ frame' = [frame EXCEPT ![i].pc = "await",
                              ![i].reqs = Append(@, PointsUrl(frame[i].args[1],
                                                              frame[i].args[2]))]
    /\ UNCHANGED <<file, clock, calls, srv, ret, jr, durable>>

\* the same without the check of points_data: None["properties"] raises
get_forecast_points_NoCheck(i, outcome) ==
    /\ At(i, "get_forecast", "await")
    /\ Len(frame[i].reqs) = 1
    /\ LET points_data == make_nws_request(outcome) IN
       IF ~Truthy(points_data)
       THEN /\ ret' = Reply(i, frame[i].cid, "get_forecast", frame[i].args, TRUE,
                            "TypeError",
                            frame[i].reqs, Append(frame[i].resps, points_data))
            /\ frame' = [frame EXCEPT ![i] = IdleFrame]
       ELSE /\ frame' = [frame EXCEPT
                    ![i].reqs = Append(@, Str(Item(Item(points_data, "properties"),
                                                   "forecast"))),
                    ![i].resps = Append(@, points_data)]
            /\ UNCHANGED ret
    /\ UNCHANGED <<file, clock, calls, srv, jr, durable>>

\* lines 148-154: the grid point GET ended; give up, or GET the forecast feed
get_forecast_points(i, outcome) ==
    /\ At(i, "get_forecast", "await")
    /\ Len(frame[i].reqs) = 1
    /\ LET points_data == make_nws_request(outcome) IN
       IF ~Truthy(points_data)
       THEN /\ ret' = Reply(i, frame[i].cid, "get_forecast", frame[i].args, FALSE,
                            "Unable to fetch forecast data",
                            frame[i].reqs, Append(frame[i].resps, points_data))
            /\ frame' = [frame EXCEPT ![i] = IdleFrame]
       ELSE /\ frame' = [frame EXCEPT
                    ![i].reqs = Append(@, Str(Item(Item(points_data, "properties"),
                                                   "forecast"))),
                    ![i].resps = Append(@, points_data)]
            /\ UNCHANGED ret
    /\ UNCHANGED <<file, clock, calls, srv, jr, durable>>

\* lines 154-170: the forecast GET ended, format the reply
get_forecast_feed(i, outcome) ==
    /\ At(i, "get_forecast", "await")
    /\ Len(frame[i].reqs) = 2
    /\ LET forecast_data == make_nws_request(outcome) IN
       ret' = Reply(i, frame[i].cid, "get_forecast", frame[i].args, FALSE,
                    IF ~Truthy(forecast_data) THEN "Unable to fetch forecast"
                    ELSE ForecastText(frame[i].args[3], forecast_data),
                    frame[i].reqs, Append(frame[i].resps, forecast_data))
    /\ frame' = [frame EXCEPT ![i] = IdleFrame]
    /\ UNCHANGED <<file, clock, calls, srv, jr, durable>>

(***************************************************************************)
(* save_favorite(name, latitude, longitude)                                *)
(***************************************************************************)
\* lines 184-196: load, scan for the name, append to the local copy
save_favorite_load(i, name, latitude, longitude) ==
    /\ CanStart(i)
    /\ LET m == load_memory(file)
           args == <<name, latitude, longitude>>
       IN
       IF m.raised THEN LoadRaises(i, "save_favorite", args, m)
       ELSE IF FavoriteExists(m.val, name)
       THEN ReadReturns(i, "save_favorite", args, m, AlreadySavedText(name))
       ELSE /\ frame' = [frame EXCEPT ![i] =
                    Loaded(i, "save_favorite", args, m,
                           AppendFavorite(m.val,
                               FavoriteRecord(name, latitude, longitude, clock)))]
            /\ clock' = clock + 1
            /\ ret' = NoRet
            /\ UNCHANGED <<file, jr, durable>>
    /\ calls' = calls + 1
    /\ UNCHANGED srv

\* lines 197-199
save_favorite_save(i) ==
    /\ At(i, "save_favorite", "save")
    /\ Saves(i)
    /\ durable' = [durable EXCEPT !.favorites =
                      Append(@, LastOf(Favorites(frame[i].memory)))]
    /\ ret' = Reply(i, frame[i].cid, "save_favorite", frame[i].args, FALSE,
                    SavedText(frame[i].args[1]), <<>>, <<>>)
    /\ frame' = [frame EXCEPT ![i] = IdleFrame]
    /\ UNCHANGED <<clock, calls, srv>>

(***************************************************************************)
(* get_favorites(), get_history(limit), the stats resource                 *)
(***************************************************************************)
get_favorites(i) ==
    /\ CanStart(i)
    /\ LET m == load_memory(file) IN
       IF m.raised THEN LoadRaises(i, "get_favorites", <<>>, m)
       ELSE ReadReturns(i, "get_favorites", <<>>, m, FavoritesText(m.val))
    /\ calls' = calls + 1
    /\ UNCHANGED srv

get_history(i, limit) ==
    /\ CanStart(i)
    /\ LET m == load_memory(file) IN
       IF m.raised THEN LoadRaises(i, "get_history", <<limit>>, m)
       ELSE ReadReturns(i, "get_history", <<limit>>, m, HistoryText(m.val, limit))
    /\ calls' = calls + 1
    /\ UNCHANGED srv

get_stats(i) ==
    /\ CanStart(i)
    /\ LET m == load_memory(file) IN
       IF m.raised THEN LoadRaises(i, "get_stats", <<>>, m)
       ELSE ReadReturns(i, "get_stats", <<>>, m, StatsText(m.val))
    /\ calls' = calls + 1
    /\ UNCHANGED srv

(***************************************************************************)
(* clear_history()                                                         *)
(***************************************************************************)
\* lines 254-255
clear_history_load(i) ==
    /\ CanStart(i)
    /\ LET m == load_memory(file) IN
       IF m.raised THEN LoadRaises(i, "clear_history", <<>>, m)
       ELSE /\ frame' = [frame EXCEPT ![i] =
                    Loaded(i, "clear_history", <<>>, m, ClearSearches(m.val))]
            /\ ret' = NoRet
            /\ UNCHANGED <<file, clock, jr, durable>>
    /\ calls' = calls + 1
    /\ UNCHANGED srv

\* lines 256-257
clear_history_save(i) ==
    /\ At(i, "clear_history", "save")
    /\ Saves(i)
    /\ durable' = [durable EXCEPT !.searches = <<>>]
    /\ ret' = Reply(i, frame[i].cid, "clear_history", <<>>, FALSE,
                    HistoryClearedText, <<>>, <<>>)
    /\ frame' = [frame EXCEPT ![i] = IdleFrame]
    /\ UNCHANGED <<clock, calls, srv>>

(***************************************************************************)
(* The specifications.                                                     *)
(***************************************************************************)
Next ==
    \E i \in Procs :
        \/ \E state \in States : get_alerts_load(i, state)
        \/ get_alerts_save(i)
        \/ get_alerts_request(i)
        \/ \E n \in 1..Len(AlertsOutcomes) : get_alerts_response(i, AlertsOutcomes[n])
        \/ \E a \in ForecastArgs : get_forecast_load(i, a[1], a[2], a[3])
        \/ get_forecast_save(i)
        \/ get_forecast_request(i)
        \/ \E n \in 1..Len(PointsOutcomes) : get_forecast_points(i, PointsOutcomes[n])
        \/ \E n \in 1..Len(FeedOutcomes) : get_forecast_feed(i, FeedOutcomes[n])
        \/ \E a \in FavoriteArgs : save_favorite_load(i, a[1], a[2], a[3])
        \/ save_favorite_save(i)
        \/ get_favorites(i)
        \/ \E limit \in Limits : get_history(i, limit)
        \/ get_stats(i)
        \/ clear_history_load(i)
        \/ clear_history_save(i)

\* the server as it runs: one process, one event loop
Spec == Init /\ [][Next]_vars

\* the tools that write the store
NextMP ==
    \E i \in Procs :
        \/ \E state \in States : get_alerts_load(i, state)
        \/ get_alerts_save(i)
        \/ get_alerts_request(i)
        \/ \E n \in 1..Len(AlertsOutcomes) : get_alerts_response(i, AlertsOutcomes[n])
        \/ \E a \in ForecastArgs : get_forecast_load(i, a[1], a[2], a[3])
        \/ get_forecast_save(i)
        \/ get_forecast_request(i)
        \/ \E n \in 1..Len(PointsOutcomes) : get_forecast_points(i, PointsOutcomes[n])
        \/ \E n \in 1..Len(FeedOutcomes) : get_forecast_feed(i, FeedOutcomes[n])
        \/ \E a \in FavoriteArgs : save_favorite_load(i, a[1], a[2], a[3])
        \/ save_favorite_save(i)
        \/ clear_history_load(i)
        \/ clear_history_save(i)

\* the tools that write the store, in one server process or in two server
\* processes that share the file
SpecMP == InitMP /\ [][NextMP]_vars

\* save_memory(load_memory()), run while no handler runs
save_load_round_trip ==
    /\ \A i \in Procs : frame[i].pc = "idle"
    /\ calls < MaxCalls
    /\ LET m == load_memory(file) IN
       /\ ~m.raised
       /\ file' = save_memory(m.val)
       /\ jr' = Logged(Access(0, calls + 1, "save(load())", <<>>, ~file.exists,
                              FALSE, m.val, m.val))
    /\ calls' = calls + 1
    /\ ret' = NoRet
    /\ UNCHANGED <<clock, srv, frame, durable>>

NextRT == Next \/ save_load_round_trip

\* the server, and the round trip applied to the stores it produces
SpecRT == Init /\ [][NextRT]_vars

(***************************************************************************)
(* Properties.                                                             *)
(***************************************************************************)
\* what a load of the store returns now
StoredDoc == load_memory(file).val

InSeq(x, seq) == \E n \in 1..Len(seq) : seq[n] = x

\* access a was a get_alerts: the store is what a loaded, one alerts record
\* of a's region code added at the end, the favorites as loaded
AlertsRecordAppended(a) ==
    LET before == Searches(a.loaded)
        after == Searches(StoredDoc)
    IN  /\ file.exists
        /\ Len(after) = Len(before) + 1
        /\ SubSeq(after, 1, Len(before)) = before
        /\ Item(LastOf(after), "type") = PyStr("alerts")
        /\ Item(LastOf(after), "state") = PyStr(a.args[1])
        /\ Favorites(StoredDoc) = Favorites(a.loaded)

\* C1: a get_alerts that no other store access follows has appended exactly
\* one alerts record with its region code to the end of the stored searches
\* and left the favorites alone, whatever the fetch returned; the record is
\* in the file when the GET is issued, and no GET is issued before the save.
C1_AlertsAppendsOneRecord ==
    /\ (jr # <<>> /\ LastOf(jr).op = "get_alerts" /\ ~LastOf(jr).raised)
          => AlertsRecordAppended(LastOf(jr))
    /\ \A i \in Procs :
          frame[i].op = "get_alerts" =>
             /\ frame[i].pc = "request" =>
                   (LastOf(jr).cid = frame[i].cid /\ frame[i].reqs = <<>>)
             /\ frame[i].reqs # <<>> => frame[i].pc = "await"

\* C1 witness: a get_alerts whose fetch failed has returned, and its record
\* is the last of a history that held records before
C1_Witness ==
    /\ ret.op = "get_alerts" /\ ret.resps = << PyNone >>
    /\ ret.value = "Unable to fetch alerts"
    /\ jr # <<>> /\ LastOf(jr).cid = ret.cid
    /\ Searches(LastOf(jr).loaded) # <<>>
    /\ AlertsRecordAppended(LastOf(jr))

\* the favorites of doc with this name
WithName(doc, name) ==
    SelectSeq(Favorites(doc), LAMBDA f : Item(f, "name") = PyStr(name))

Coordinates(fav) == << Item(fav, "latitude"), Item(fav, "longitude") >>

\* the last two store accesses are two save_favorite calls with the same
\* name and different coordinates
TwoSaveFavorites ==
    /\ Len(jr) = 2
    /\ jr[1].op = "save_favorite" /\ jr[2].op = "save_favorite"
    /\ ~jr[1].raised /\ ~jr[2].raised
    /\ jr[1].args[1] = jr[2].args[1]
    /\ << jr[1].args[2], jr[1].args[3] >> # << jr[2].args[2], jr[2].args[3] >>

\* what holds of the second call whatever the store: it changed nothing,
\* returned "already saved", and one favorite has the name
SecondSaveIsNoOp ==
    /\ Len(WithName(StoredDoc, jr[2].args[1])) = 1
    /\ jr[2].wrote = PyNone
    /\ StoredDoc = jr[2].loaded
    /\ ret.cid = jr[2].cid =>
          (~ret.raised /\ ret.value = AlreadySavedText(jr[2].args[1]))

\* C2 as claimed: after the two calls, from any store, the one favorite of
\* that name holds the first call's coordinates.
C2_FirstCoordinatesAnyStore ==
    TwoSaveFavorites =>
       /\ SecondSaveIsNoOp
       /\ Coordinates(WithName(StoredDoc, jr[1].args[1])[1])
             = << PyFloat(jr[1].args[2]), PyFloat(jr[1].args[3]) >>

\* C2 amended: the one favorite of that name holds the first call's
\* coordinates when the store did not hold the name before the first call,
\* and is the record the store already held when it did (the first call
\* then changes nothing either).
C2_SaveFavoriteIdempotent ==
    TwoSaveFavorites =>
       /\ SecondSaveIsNoOp
       /\ IF WithName(jr[1].loaded, jr[1].args[1]) = <<>>
          THEN Coordinates(WithName(StoredDoc, jr[1].args[1])[1])
                  = << PyFloat(jr[1].args[2]), PyFloat(jr[1].args[3]) >>
          ELSE /\ jr[1].wrote = PyNone
               /\ WithName(StoredDoc, jr[1].args[1])
                     = WithName(jr[1].loaded, jr[1].args[1])

\* C2 witness: the first call stored the name, the second answered
C2_Witness ==
    /\ TwoSaveFavorites
    /\ WithName(jr[1].loaded, jr[1].args[1]) = <<>>
    /\ ret.cid = jr[2].cid
    /\ ret.value = AlreadySavedText(jr[2].args[1])

\* the last n records, the most recent first; none when n is not positive
LastNMostRecentFirst(searches, n) ==
    IF n <= 0 THEN <<>>
    ELSE Reversed(SubSeq(searches,
                         IF Len(searches) > n THEN Len(searches) - n + 1 ELSE 1,
                         Len(searches)))

\* C3 as claimed: on a store with searches, get_history(limit) renders the
\* last limit records, most recent first, and so at most limit of them, for
\* every integer limit.
C3_HistoryShowsLastN ==
    (/\ jr # <<>> /\ LastOf(jr).op = "get_history" /\ ~LastOf(jr).raised
     /\ Searches(LastOf(jr).loaded) # <<>>
     /\ ret.cid = LastOf(jr).cid)
    => LET shown == LastNMostRecentFirst(Searches(LastOf(jr).loaded), ret.args[1]) IN
       ret.value = JoinStr(<<"[Weather MCP Server] Recent Searches:\n">>
                           \o [n \in 1..Len(shown) |-> HistoryLine(shown[n])], "\n")

\* C4: once clear_history has saved, the stored searches are empty and the
\* favorites are the ones it loaded; a get_history that is the next store
\* access returns the empty-history text.
C4_ClearHistory ==
    /\ (jr # <<>> /\ LastOf(jr).op = "clear_history" /\ ~LastOf(jr).raised)
          => /\ file.exists
             /\ Searches(StoredDoc) = <<>>
             /\ Favorites(StoredDoc) = Favorites(LastOf(jr).loaded)
    /\ (/\ Len(jr) = 2
        /\ jr[1].op = "clear_history" /\ ~jr[1].raised
        /\ jr[2].op = "get_history"
        /\ ret.cid = jr[2].cid)
          => (~ret.raised /\ ret.value = NoHistoryText)

\* C4 witness: a store with searches and favorites was cleared, and the
\* get_history after it has answered
C4_Witness ==
    /\ Len(jr) = 2
    /\ jr[1].op = "clear_history" /\ ~jr[1].raised
    /\ Searches(jr[1].loaded) # <<>> /\ Favorites(jr[1].loaded) # <<>>
    /\ Favorites(StoredDoc) = Favorites(jr[1].loaded)
    /\ jr[2].op = "get_history" /\ ret.cid = jr[2].cid
    /\ ret.value = NoHistoryText

\* C5: a get_forecast whose grid-point fetch returned None returned "Unable
\* to fetch forecast data" after one GET only; one whose second fetch
\* returned None returned "Unable to fetch forecast"; neither raised.  The
\* search record is in the file when the first GET is issued, and no GET is
\* issued before the save.
C5_ForecastFetchFailure ==
    /\ (ret.op = "get_forecast" /\ Len(ret.resps) >= 1) =>
          /\ ret.resps[1] = PyNone =>
                /\ ~ret.raised
                /\ ret.value = "Unable to fetch forecast data"
                /\ Len(ret.reqs) = 1 /\ Len(ret.resps) = 1
          /\ (Len(ret.resps) = 2 /\ ret.resps[2] = PyNone) =>
                /\ ~ret.raised
                /\ ret.value = "Unable to fetch forecast"
    /\ \A i \in Procs :
          frame[i].op = "get_forecast" =>
             /\ frame[i].pc = "request" =>
                   /\ LastOf(jr).cid = frame[i].cid /\ frame[i].reqs = <<>>
                   /\ Searches(StoredDoc) = Searches(frame[i].memory)
                   /\ Item(LastOf(Searches(StoredDoc)), "type") = PyStr("forecast")
             /\ frame[i].reqs # <<>> => frame[i].pc = "await"

\* C5 witness: the grid-point fetch of a get_forecast failed and the call
\* has returned, its record the last of the store
C5_Witness ==
    /\ ret.op = "get_forecast" /\ ret.resps = << PyNone >>
    /\ ret.value = "Unable to fetch forecast data"
    /\ jr # <<>> /\ LastOf(jr).cid = ret.cid
    /\ Item(LastOf(Searches(StoredDoc)), "type") = PyStr("forecast")

\* the text of a field of an alert: the fallback when the key is missing
FieldOr(props, key, fallback) ==
    IF \E n \in 1..Len(props[2]) : props[2][n][1] = key
    THEN Str(props[2][CHOOSE n \in 1..Len(props[2]) : props[2][n][1] = key][2])
    ELSE fallback

BlockOf(feature) ==
    LET props == Item(feature, "properties") IN
    "\nEvent: " \o FieldOr(props, "event", "Unknown")
    \o "\nArea: " \o FieldOr(props, "areaDesc", "Unknown")
    \o "\nSeverity: " \o FieldOr(props, "severity", "Unknown")
    \o "\nDescription: " \o FieldOr(props, "description", "No description")
    \o "\n"

NoFeaturesList(data) == data[1] # "dict" \/ ~HasKey(data, "features")

\* C6: what get_alerts returns follows from the fetched data alone: "Unable
\* to fetch alerts" exactly when the data is None or has no features list,
\* "No active alerts for {state}" exactly when the list is there and empty,
\* otherwise the header and one block per feature, in the order of the
\* list, joined by the separator, a missing field as "Unknown" or
\* "No description".
C6_AlertsResult ==
    (ret.op = "get_alerts" /\ ~ret.raised) =>
       LET data == ret.resps[1]
           state == ret.args[1]
       IN  /\ (ret.value = "Unable to fetch alerts") <=> NoFeaturesList(data)
           /\ (ret.value = "No active alerts for " \o state)
                 <=> (~NoFeaturesList(data) /\ Item(data, "features")[2] = <<>>)
           /\ (~NoFeaturesList(data) /\ Item(data, "features")[2] # <<>>) =>
                 LET features == Item(data, "features")[2] IN
                 ret.value = "[Weather MCP Server] Alerts for " \o state \o "\n"
                             \o JoinStr([n \in 1..Len(features) |-> BlockOf(features[n])],
                                        "\n---\n")

\* C6 witness: two alerts were fetched, one with no field at all, one with a
\* null event and no severity
C6_Witness ==
    /\ ret.op = "get_alerts" /\ ~ret.raised
    /\ ret.resps = << FeatureCollection(<< Feature(NoProps), Feature(PartProps) >>) >>
    /\ ret.value # "Unable to fetch alerts"

\* C7: after save_memory(load_memory()), a load returns the document the
\* load before it returned.
C7_RoundTrip ==
    (jr # <<>> /\ LastOf(jr).op = "save(load())") =>
       /\ file.exists
       /\ load_memory(file) = [raised |-> FALSE, val |-> LastOf(jr).loaded]
       /\ LastOf(jr).absent => LastOf(jr).loaded = EmptyDoc

\* C7 witness: the round trip ran on a store with searches and favorites
C7_Witness ==
    /\ jr # <<>> /\ LastOf(jr).op = "save(load())"
    /\ Searches(LastOf(jr).loaded) # <<>>
    /\ Favorites(LastOf(jr).loaded) # <<>>

\* C8: in the one server process, no two stored favorites have the same
\* name, and the stored favorites are exactly the favorites saved so far, in
\* the order they were saved: none was changed or removed.
C8_FavoriteNamesUnique ==
    ~load_memory(file).raised =>
       /\ \A m, n \in 1..Len(Favorites(StoredDoc)) :
             Item(Favorites(StoredDoc)[m], "name") = Item(Favorites(StoredDoc)[n], "name")
                => m = n
       /\ Favorites(StoredDoc) = durable.favorites

\* C8 witness: two favorites are stored and a save under a stored name was
\* turned down
C8_Witness ==
    /\ ~load_memory(file).raised
    /\ Len(Favorites(StoredDoc)) = 2
    /\ ret.op = "save_favorite" /\ ret.value = AlreadySavedText(ret.args[1])

\* some record of saved is not in stored
SomeLost(saved, stored) == \E n \in 1..Len(saved) : ~InSeq(saved[n], stored)

LostSearch == SomeLost(durable.searches, Searches(StoredDoc))

LostFavorite == SomeLost(durable.favorites, Favorites(StoredDoc))

\* a record that was saved, and no clear_history saved after it, is not in
\* the store
LostUpdate ==
    LET m == load_memory(file) IN
    /\ ~m.raised
    /\ \/ SomeLost(durable.searches, Searches(m.val))
       \/ SomeLost(durable.favorites, Favorites(m.val))

\* C9: an update is lost only when the two invocations run in different
\* server processes: there the load of one falls between the load and the
\* save of the other.  On one event loop nothing is lost.
C9_LostUpdateOnlyAcrossProcesses == LostUpdate => srv[1] # srv[2]

\* C9 witness: both invocations have ended and a search one of them saved is
\* missing from the store
C9_Witness ==
    /\ \A i \in Procs : frame[i].pc = "idle"
    /\ ~load_memory(file).raised
    /\ LostSearch

\* the file is there and json.load raises on it
Malformed == file.exists /\ json_load(file.text).raised

\* C10: a load of an absent file is no error and gives the empty document,
\* and the handler answers as on the empty store.  While the file is
\* malformed every handler and the stats resource has raised out of its
\* load: nothing was written, the file is as it was, no handler got as far
\* as a GET.
C10_LoadFailures ==
    /\ \A n \in 1..Len(jr) :
          jr[n].absent => (~jr[n].raised /\ jr[n].loaded = EmptyDoc)
    /\ (jr # <<>> /\ LastOf(jr).absent /\ ret.cid = LastOf(jr).cid) =>
          /\ ~ret.raised
          /\ ret.op = "get_favorites" => ret.value = NoFavoritesText
          /\ ret.op = "get_history" => ret.value = NoHistoryText
          /\ ret.op = "get_stats" => ret.value = StatsText(EmptyDoc)
          /\ ret.op = "clear_history" => file = save_memory(EmptyDoc)
          /\ ret.op = "save_favorite" => Len(Favorites(StoredDoc)) = 1
    /\ Malformed =>
          /\ file = TruncatedFile
          /\ \A n \in 1..Len(jr) : jr[n].raised /\ jr[n].wrote = PyNone
          /\ \A i \in Procs : frame[i].pc = "idle" /\ frame[i].reqs = <<>>
          /\ ret.cid > 0 =>
                (ret.raised /\ ret.value = "JSONDecodeError" /\ ret.reqs = <<>>)

\* C10 witness: get_forecast was called on the malformed file, after the
\* stats resource
C10_Witness ==
    /\ Malformed
    /\ Len(jr) = 2 /\ jr[1].op = "get_stats" /\ jr[1].raised
    /\ ret.op = "get_forecast" /\ ret.raised

====
